---- MODULE Spec2Model ----
(***************************************************************************)
(* Wallet ledger: wallets/services.py execute_wallet_operation running as  *)
(* concurrent transactions against the wallets and wallet_operations       *)
(* tables.  Amounts and balances are counted in hundredths (DECIMAL_PLACES *)
(* = 2), so Decimal arithmetic is exact integer arithmetic.                *)
(***************************************************************************)
EXTENDS Integers, Sequences, FiniteSets, TLC

\* ---------------------------------------------------------------- bounds
MaxCalls == 2
MaxAmount == 2
MaxInitBalance == 2

Calls == 1..MaxCalls
\* "w1" is created with an explicit balance, "w2" with the default one;
\* "w0" is the id of no wallet.
ExistingIds == {"w1", "w2"}
WalletIds == ExistingIds \cup {"w0"}
Amounts == 1..MaxAmount

\* ------------------------------------------------------------- constants
WALLET_DEFAULT_BALANCE == 0
OPERATION_TYPE_DEPOSIT == "DEPOSIT"
OPERATION_TYPE_WITHDRAW == "WITHDRAW"
OperationTypes == {OPERATION_TYPE_DEPOSIT, OPERATION_TYPE_WITHDRAW, "TRANSFER"}

WalletNotFoundError == "WalletNotFoundError"
InsufficientBalanceError == "InsufficientBalanceError"
UnknownOperationTypeError == "UnknownOperationTypeError"
StoreFailure == "StoreFailure"
Raised == {WalletNotFoundError, InsufficientBalanceError,
           UnknownOperationTypeError, StoreFailure}
KnownTypes == {OPERATION_TYPE_DEPOSIT, OPERATION_TYPE_WITHDRAW}

\* The calls made: every known kind and amount on every existing wallet; a
\* call that fails before its amount is used in any computation (unknown
\* kind, missing wallet) is made with the smallest amount.
Requests ==
    (ExistingIds \X KnownTypes \X Amounts)
        \cup (WalletIds \X (OperationTypes \ KnownTypes) \X {1})
        \cup ((WalletIds \ ExistingIds) \X KnownTypes \X {1})

\* Users: "alice" owns "w1", "bob" owns no wallet; "w2" was created with
\* no user (Wallet.objects.create(balance=...)).
Users == {"alice", "bob"}
NoUser == "nobody"

InTransaction == {"locked", "computed", "saved", "created"}
Finished == Raised \cup {"ok"}

VARIABLES
    wallets,        \* wallets table: id -> committed balance
    ops,            \* wallet_operations table, in insertion order
    rowLock,        \* wallet id -> transactions holding its row lock
    pc,             \* position of each invocation
    wallet_uuid,    \* argument of each invocation
    operation_type, \* argument of each invocation
    amount,         \* argument of each invocation
    wallet_balance, \* wallet.balance of the instance the invocation fetched
    old_balance,    \* old_balance local of the invocation
    txUpdates,      \* wallet row updates issued inside the transaction
    txInserts,      \* operation records inserted inside the transaction
    initial,        \* balance each wallet was created with
    lockOrder,      \* wallet id -> invocations in lock-acquisition order
    owner,          \* wallets table: id -> user of the wallet
    principal,      \* request.user of each request
    method,         \* HTTP method of each request
    url_wallet,     \* wallet_uuid of the URL of each request
    payload,        \* request.data of each request
    status,         \* status code of the response, 0 while there is none
    data            \* body of the response

vars == <<wallets, ops, rowLock, pc, wallet_uuid, operation_type, amount,
          wallet_balance, old_balance, txUpdates, txInserts, initial,
          lockOrder, owner, principal, method, url_wallet, payload, status,
          data>>

args == <<wallet_uuid, operation_type, amount>>
locals == <<wallet_balance, old_balance>>
tables == <<wallets, ops>>
ghost == <<initial, lockOrder>>
request == <<principal, method, url_wallet, payload>>
response == <<status, data>>
api == <<owner, request, response>>

\* ------------------------------------------------------------ pure parts
\* Variants of the balance check: left out, and rejecting the exact balance.
InsufficientBalanceUnchecked(bal, amt) == FALSE
InsufficientBalanceStrict(bal, amt) == bal <= amt

\* services.py:68  if wallet.balance < amount
InsufficientBalance(bal, amt) == bal < amt

\* Variant: the two branches are swapped.
NewBalanceSwapped(kind, bal, amt) ==
    IF kind = OPERATION_TYPE_DEPOSIT THEN bal - amt ELSE bal + amt

\* Variant: the WITHDRAW branch adds instead of subtracting.
NewBalanceAlwaysAdds(kind, bal, amt) == bal + amt

\* services.py:56 and services.py:84
NewBalance(kind, bal, amt) ==
    IF kind = OPERATION_TYPE_DEPOSIT THEN bal + amt ELSE bal - amt

\* Variant: one lock for the whole table instead of a lock per row.
LockFreeGlobal(w) == \A x \in DOMAIN rowLock : rowLock[x] = {}

\* Variant: the fetch without select_for_update() never waits.
LockFreeAlways(w) == TRUE

\* select_for_update(): the row lock is granted only when nobody holds it
LockFree(w) == rowLock[w] = {}

\* Variant: the record is created for the wallet created last.
NewOperationElsewhere(c) ==
    [id |-> c, wallet |-> "w2",
     operation_type |-> operation_type[c], amount |-> amount[c]]

\* Variant: the record is created with the new balance as its amount.
NewOperationWithBalance(c) ==
    [id |-> c, wallet |-> wallet_uuid[c],
     operation_type |-> operation_type[c], amount |-> wallet_balance[c]]

\* WalletOperation.objects.create(wallet=wallet, operation_type=..., amount=...)
NewOperation(c) ==
    [id |-> c, wallet |-> wallet_uuid[c],
     operation_type |-> operation_type[c], amount |-> amount[c]]

\* ------------------------------------------------------------------ Init
Init ==
    /\ \E b \in 0..MaxInitBalance :
          wallets = [w \in ExistingIds |->
                        IF w = "w1" THEN b ELSE WALLET_DEFAULT_BALANCE]
    /\ initial = wallets
    /\ ops = <<>>
    /\ rowLock = [w \in ExistingIds |-> {}]
    /\ pc = [c \in Calls |-> "idle"]
    /\ wallet_uuid = [c \in Calls |-> "none"]
    /\ operation_type = [c \in Calls |-> "none"]
    /\ amount = [c \in Calls |-> 0]
    /\ wallet_balance = [c \in Calls |-> 0]
    /\ old_balance = [c \in Calls |-> 0]
    /\ txUpdates = [c \in Calls |-> <<>>]
    /\ txInserts = [c \in Calls |-> <<>>]
    /\ lockOrder = [w \in ExistingIds |-> <<>>]
    /\ owner = [w \in ExistingIds |-> IF w = "w1" THEN "alice" ELSE NoUser]
    /\ principal = [c \in Calls |-> NoUser]
    /\ method = [c \in Calls |-> "none"]
    /\ url_wallet = [c \in Calls |-> "none"]
    /\ payload = [c \in Calls |-> <<>>]
    /\ status = [c \in Calls |-> 0]
    /\ data = [c \in Calls |-> <<>>]

\* --------------------------------------------------------------- actions
\* execute_wallet_operation(wallet_uuid, operation_type, amount) is entered:
\* transaction.atomic opens the transaction.  Invocations are numbered in
\* the order they are made.
Begin(c) ==
    /\ pc[c] = "idle"
    /\ IF c = 1 THEN TRUE ELSE pc[c - 1] # "idle"
    /\ \E r \in Requests :
          /\ wallet_uuid' = [wallet_uuid EXCEPT ![c] = r[1]]
          /\ operation_type' = [operation_type EXCEPT ![c] = r[2]]
          /\ amount' = [amount EXCEPT ![c] = r[3]]
    /\ pc' = [pc EXCEPT ![c] = "begun"]
    /\ UNCHANGED <<tables, rowLock, locals, txUpdates, txInserts, ghost, api>>

\* Variant: without transaction.atomic every statement is committed as it
\* is issued, so an exception undoes nothing.
RollbackKeepsWrites(c, exc) ==
    /\ pc' = [pc EXCEPT ![c] = exc]
    /\ wallets' = IF wallet_uuid[c] \in DOMAIN wallets
                  THEN [wallets EXCEPT ![wallet_uuid[c]] =
                           IF txUpdates[c] = <<>> THEN @
                           ELSE txUpdates[c][Len(txUpdates[c])]]
                  ELSE wallets
    /\ ops' = ops \o txInserts[c]
    /\ rowLock' = [w \in ExistingIds |-> rowLock[w] \ {c}]
    /\ UNCHANGED <<args, txUpdates, txInserts>>

\* Variant: the exception is caught inside the atomic block, so the
\* transaction stays open with its row lock.
RollbackKeepsLock(c, exc) ==
    /\ pc' = [pc EXCEPT ![c] = exc]
    /\ txUpdates' = [txUpdates EXCEPT ![c] = <<>>]
    /\ txInserts' = [txInserts EXCEPT ![c] = <<>>]
    /\ UNCHANGED <<tables, rowLock, args>>

\* The exception leaves the atomic block: the transaction rolls back, its
\* pending writes are discarded and its row lock is released.
Rollback(c, exc) ==
    /\ pc' = [pc EXCEPT ![c] = exc]
    /\ txUpdates' = [txUpdates EXCEPT ![c] = <<>>]
    /\ txInserts' = [txInserts EXCEPT ![c] = <<>>]
    /\ rowLock' = [w \in ExistingIds |-> rowLock[w] \ {c}]
    /\ UNCHANGED <<tables, args>>

\* Variant: the fetch is tried again after it failed in the store.
LockWalletRetries(c) ==
    /\ \/ pc[c] = "begun"
       \/ pc[c] = StoreFailure /\ wallet_balance[c] = old_balance[c]
    /\ wallet_uuid[c] \in DOMAIN wallets
    /\ LockFree(wallet_uuid[c])
    /\ rowLock' = [rowLock EXCEPT ![wallet_uuid[c]] = @ \cup {c}]
    /\ wallet_balance' = [wallet_balance EXCEPT ![c] = wallets[wallet_uuid[c]]]
    /\ lockOrder' = [lockOrder EXCEPT ![wallet_uuid[c]] = Append(@, c)]
    /\ pc' = [pc EXCEPT ![c] = "locked"]
    /\ UNCHANGED <<tables, args, old_balance, txUpdates, txInserts, initial, api>>

\* Wallet.objects.select_for_update().get(id=wallet_uuid), row present:
\* waits until the row lock is free, takes it and reads the committed row.
LockWallet(c) ==
    /\ pc[c] = "begun"
    /\ wallet_uuid[c] \in DOMAIN wallets
    /\ LockFree(wallet_uuid[c])
    /\ rowLock' = [rowLock EXCEPT ![wallet_uuid[c]] = @ \cup {c}]
    /\ wallet_balance' = [wallet_balance EXCEPT ![c] = wallets[wallet_uuid[c]]]
    /\ lockOrder' = [lockOrder EXCEPT ![wallet_uuid[c]] = Append(@, c)]
    /\ pc' = [pc EXCEPT ![c] = "locked"]
    /\ UNCHANGED <<tables, args, old_balance, txUpdates, txInserts, initial, api>>

\* Variant: the fetch is a get_or_create, so a missing id gets a wallet.
LockMissingCreates(c) ==
    /\ pc[c] = "begun"
    /\ wallet_uuid[c] \notin DOMAIN wallets
    /\ wallets' = [w \in DOMAIN wallets \cup {wallet_uuid[c]} |->
                      IF w \in DOMAIN wallets THEN wallets[w]
                      ELSE WALLET_DEFAULT_BALANCE]
    /\ pc' = [pc EXCEPT ![c] = WalletNotFoundError]
    /\ UNCHANGED <<ops, rowLock, args, locals, txUpdates, txInserts, ghost, api>>

\* Wallet.DoesNotExist -> WalletNotFoundError
LockMissing(c) ==
    /\ pc[c] = "begun"
    /\ wallet_uuid[c] \notin DOMAIN wallets
    /\ Rollback(c, WalletNotFoundError)
    /\ UNCHANGED <<locals, ghost, api>>

\* The DEPOSIT branch.
ApplyDeposit(c) ==
    /\ pc[c] = "locked"
    /\ operation_type[c] = OPERATION_TYPE_DEPOSIT
    /\ old_balance' = [old_balance EXCEPT ![c] = wallet_balance[c]]
    /\ wallet_balance' = [wallet_balance EXCEPT ![c] =
                             NewBalance(operation_type[c], @, amount[c])]
    /\ pc' = [pc EXCEPT ![c] = "computed"]
    /\ UNCHANGED <<tables, rowLock, args, txUpdates, txInserts, ghost, api>>

\* The WITHDRAW branch with enough balance.
ApplyWithdraw(c) ==
    /\ pc[c] = "locked"
    /\ operation_type[c] = OPERATION_TYPE_WITHDRAW
    /\ ~InsufficientBalance(wallet_balance[c], amount[c])
    /\ old_balance' = [old_balance EXCEPT ![c] = wallet_balance[c]]
    /\ wallet_balance' = [wallet_balance EXCEPT ![c] =
                             NewBalance(operation_type[c], @, amount[c])]
    /\ pc' = [pc EXCEPT ![c] = "computed"]
    /\ UNCHANGED <<tables, rowLock, args, txUpdates, txInserts, ghost, api>>

\* The WITHDRAW branch raising InsufficientBalanceError.
RejectWithdraw(c) ==
    /\ pc[c] = "locked"
    /\ operation_type[c] = OPERATION_TYPE_WITHDRAW
    /\ InsufficientBalance(wallet_balance[c], amount[c])
    /\ Rollback(c, InsufficientBalanceError)
    /\ UNCHANGED <<locals, ghost, api>>

\* The else branch raising UnknownOperationTypeError.
RejectUnknown(c) ==
    /\ pc[c] = "locked"
    /\ operation_type[c] \notin KnownTypes
    /\ Rollback(c, UnknownOperationTypeError)
    /\ UNCHANGED <<locals, ghost, api>>

\* Variant: wallet.save() is left out.
SaveWalletSkipped(c) ==
    /\ pc[c] = "computed"
    /\ pc' = [pc EXCEPT ![c] = "saved"]
    /\ UNCHANGED <<tables, rowLock, args, locals, txUpdates, txInserts, ghost, api>>

\* Variant: the UPDATE is visible to other connections as soon as it is
\* issued (no transaction around the statements).
SaveWalletDirty(c) ==
    /\ pc[c] = "computed"
    /\ wallets' = [wallets EXCEPT ![wallet_uuid[c]] = wallet_balance[c]]
    /\ pc' = [pc EXCEPT ![c] = "saved"]
    /\ UNCHANGED <<ops, rowLock, args, locals, txUpdates, txInserts, ghost,
                   api>>

\* wallet.save(): an UPDATE of the wallet row inside the transaction.
SaveWallet(c) ==
    /\ pc[c] = "computed"
    /\ txUpdates' = [txUpdates EXCEPT ![c] = Append(@, wallet_balance[c])]
    /\ pc' = [pc EXCEPT ![c] = "saved"]
    /\ UNCHANGED <<tables, rowLock, args, locals, txInserts, ghost, api>>

\* WalletOperation.objects.create(...): an INSERT inside the transaction.
CreateOperation(c) ==
    /\ pc[c] = "saved"
    /\ txInserts' = [txInserts EXCEPT ![c] = Append(@, NewOperation(c))]
    /\ pc' = [pc EXCEPT ![c] = "created"]
    /\ UNCHANGED <<tables, rowLock, args, locals, txUpdates, ghost, api>>

\* The balance the wallet row has once the pending updates are applied.
Applied(bal, updates) ==
    IF updates = <<>> THEN bal ELSE updates[Len(updates)]

\* return wallet: the atomic block is left normally and the transaction
\* commits its pending writes together, releasing the row lock.
Commit(c) ==
    /\ pc[c] = "created"
    /\ wallets' = [wallets EXCEPT ![wallet_uuid[c]] = Applied(@, txUpdates[c])]
    /\ ops' = ops \o txInserts[c]
    /\ rowLock' = [w \in ExistingIds |-> rowLock[w] \ {c}]
    /\ pc' = [pc EXCEPT ![c] = "ok"]
    /\ UNCHANGED <<args, locals, txUpdates, txInserts, ghost, api>>

\* A statement of the transaction (the locking SELECT, the UPDATE, the INSERT
\* or the COMMIT) fails in the store; the exception leaves the atomic block.
StoreError(c) ==
    /\ pc[c] \in {"begun", "computed", "saved", "created"}
    /\ Rollback(c, StoreFailure)
    /\ UNCHANGED <<locals, ghost, api>>

Step(c) ==
    \/ Begin(c)
    \/ LockWallet(c)
    \/ LockMissing(c)
    \/ ApplyDeposit(c)
    \/ ApplyWithdraw(c)
    \/ RejectWithdraw(c)
    \/ RejectUnknown(c)
    \/ SaveWallet(c)
    \/ CreateOperation(c)
    \/ Commit(c)

Next == \E c \in Calls : Step(c)

Spec == Init /\ [][Next]_vars

NextFault == \E c \in Calls : Step(c) \/ StoreError(c)

SpecFault == Init /\ [][NextFault]_vars

\* ------------------------------------------------- helpers of the claims
RECURSIVE SumAmounts(_, _, _)
\* Sum of the amounts of the records of wallet w and kind k in a table.
SumAmounts(table, w, k) ==
    IF table = <<>> THEN 0
    ELSE (IF Head(table).wallet = w /\ Head(table).operation_type = k
          THEN Head(table).amount ELSE 0) + SumAmounts(Tail(table), w, k)

RecordsOfWallet(w) == SelectSeq(ops, LAMBDA r : r.wallet = w)
RecordsOfCall(c) == SelectSeq(ops, LAMBDA r : r.id = c)

\* The invocations made so far on wallet w.
CallsOn(w) == {c \in Calls : wallet_uuid[c] = w}
Succeeded(S) == {c \in S : pc[c] = "ok"}
AllFinished(S) == \A c \in S : pc[c] \in Finished

RECURSIVE SumOfCalls(_, _)
\* Sum of the amounts of the invocations of S that have kind k.
SumOfCalls(S, k) ==
    IF S = {} THEN 0
    ELSE LET c == CHOOSE x \in S : TRUE
         IN (IF operation_type[c] = k THEN amount[c] ELSE 0)
                + SumOfCalls(S \ {c}, k)

\* The balance an invocation read under the lock.
Observed(c) ==
    IF pc[c] \in {"computed", "saved", "created", "ok"}
    THEN old_balance[c] ELSE wallet_balance[c]

\* The invocations between acquiring the row lock of w and commit/rollback.
InWindow(w) == {c \in Calls : wallet_uuid[c] = w /\ pc[c] \in InTransaction}

\* ------------------------------------------------------------------- C1
\* C1: in every reachable state every wallet's committed balance is >= 0,
\* whatever DEPOSIT/WITHDRAW calls with amount > 0 ran and however they
\* interleaved.
NonNegativeBalance == \A w \in DOMAIN wallets : wallets[w] >= 0

\* A withdrawal emptied a wallet and a second one on it was then rejected.
NonNegativeWitness ==
    \E c, d \in Calls :
        /\ c # d /\ wallet_uuid[c] = wallet_uuid[d]
        /\ wallet_uuid[c] \in DOMAIN wallets
        /\ operation_type[c] = OPERATION_TYPE_WITHDRAW /\ pc[c] = "ok"
        /\ pc[d] = InsufficientBalanceError
        /\ initial[wallet_uuid[c]] > 0
        /\ wallets[wallet_uuid[c]] = 0

\* ------------------------------------------------------------------- C2
\* C2: conservation: for every wallet, initial balance + committed DEPOSIT
\* amounts - committed WITHDRAW amounts = current committed balance.
Conservation ==
    \A w \in DOMAIN wallets :
        initial[w] + SumAmounts(ops, w, OPERATION_TYPE_DEPOSIT)
                   - SumAmounts(ops, w, OPERATION_TYPE_WITHDRAW) = wallets[w]

\* A wallet with a committed deposit and a committed withdrawal.
ConservationWitness ==
    \E w \in DOMAIN wallets :
        /\ SumAmounts(ops, w, OPERATION_TYPE_DEPOSIT) > 0
        /\ SumAmounts(ops, w, OPERATION_TYPE_WITHDRAW) > 0
        /\ wallets[w] # initial[w]

\* ------------------------------------------------------------------- C3
\* C3: a step in which a call fails (WalletNotFoundError,
\* InsufficientBalanceError, UnknownOperationTypeError or a store failure)
\* leaves every balance and the whole history unchanged, and the tables
\* change only in the step in which a call succeeds, so a failing call has
\* written nothing at any earlier point either.
FailureLeavesState ==
    [][/\ (\E c \in Calls : pc[c] \notin Raised /\ pc'[c] \in Raised)
              => (wallets' = wallets /\ ops' = ops)
       /\ (wallets' # wallets \/ ops' # ops)
              => (\E c \in Calls : pc[c] # "ok" /\ pc'[c] = "ok")]_vars

\* A call failed in the store after computing its new balance, another
\* was rejected for insufficient balance; balances and history are intact.
FailureWitness ==
    \E c, d \in Calls :
        /\ pc[c] = StoreFailure /\ wallet_balance[c] # old_balance[c]
        /\ pc[d] = InsufficientBalanceError
        /\ wallets = initial /\ ops = <<>>

\* ------------------------------------------------------------------- C4
\* C4: exactly-once audit: a successful call committed exactly one wallet
\* update and exactly one record, carrying the call's wallet, kind and
\* amount; any other call has no record in the history.
ExactlyOnceAudit ==
    \A c \in Calls :
        IF pc[c] = "ok"
        THEN /\ Len(txUpdates[c]) = 1
             /\ Len(RecordsOfCall(c)) = 1
             /\ RecordsOfCall(c)[1].wallet = wallet_uuid[c]
             /\ RecordsOfCall(c)[1].operation_type = operation_type[c]
             /\ RecordsOfCall(c)[1].amount = amount[c]
        ELSE RecordsOfCall(c) = <<>>

\* One call succeeded and one failed; the history has the one record.
ExactlyOnceWitness ==
    \E c, d \in Calls :
        /\ pc[c] = "ok" /\ pc[d] \in Raised
        /\ Len(ops) = 1 /\ ops[1].id = c

PartialSuccess ==
    \A w \in ExistingIds, a \in Amounts :
        LET S == CallsOn(w)
            n == Cardinality(Succeeded(S))
        IN
        (/\ S # {} /\ AllFinished(S)
         /\ \A c \in S : operation_type[c] = OPERATION_TYPE_WITHDRAW
                            /\ amount[c] = a
         /\ Cardinality(S) * a > initial[w])
        => /\ n = initial[w] \div a
           /\ \A c \in S \ Succeeded(S) : pc[c] = InsufficientBalanceError
           /\ wallets[w] = initial[w] - n * a
           /\ wallets[w] >= 0 /\ wallets[w] <= initial[w]
           /\ Len(RecordsOfWallet(w)) = n

\* Two overlapping withdrawals that the balance covers only once: one
\* succeeded and one was rejected.
PartialSuccessWitness ==
    \E w \in ExistingIds :
        /\ lockOrder[w] = <<2, 1>>
        /\ operation_type[1] = OPERATION_TYPE_WITHDRAW
        /\ operation_type[2] = OPERATION_TYPE_WITHDRAW
        /\ amount[1] = amount[2]
        /\ 2 * amount[1] > initial[w]
        /\ pc[2] = "ok" /\ pc[1] = InsufficientBalanceError

\* ------------------------------------------------------------------- C7
\* C7: mutual exclusion per wallet: at most one invocation is between
\* acquiring the row lock of a wallet and its commit/rollback; while one
\* is, no other invocation on that wallet reads its row (takes a step past
\* the locking fetch) and the committed balance changes only by the
\* holder's own commit.
MutualExclusion ==
    /\ [](\A w \in ExistingIds : Cardinality(InWindow(w)) <= 1)
    /\ [][\A w \in ExistingIds : \A c \in InWindow(w) :
             /\ \A d \in CallsOn(w) \ {c} : pc'[d] = pc[d]
             /\ wallets'[w] # wallets[w] => pc'[c] = "ok"]_vars

\* One invocation holds the lock of a wallet, having computed a balance
\* that is not yet committed, while another invocation on it is waiting.
MutualExclusionWitness ==
    \E w \in ExistingIds : \E c \in InWindow(w) : \E d \in CallsOn(w) :
        /\ pc[d] = "begun"
        /\ pc[c] = "created"
        /\ wallet_balance[c] # wallets[w]

\* ------------------------------------------------------------------- C8
\* The finished invocations on w, in lock-acquisition order.
SettledOrder(w) == SelectSeq(lockOrder[w], LAMBDA c : pc[c] \in Finished)

RECURSIVE Replay(_, _)
\* The calls of order run one at a time from balance b: for each its
\* observed balance, its outcome and the balance it leaves.
Replay(b, order) ==
    IF order = <<>> THEN <<>>
    ELSE LET c == Head(order)
             out == IF operation_type[c] \notin KnownTypes
                        THEN UnknownOperationTypeError
                    ELSE IF operation_type[c] = OPERATION_TYPE_WITHDRAW
                            /\ InsufficientBalance(b, amount[c])
                        THEN InsufficientBalanceError
                    ELSE "ok"
             nb == IF out = "ok"
                   THEN NewBalance(operation_type[c], b, amount[c]) ELSE b
         IN <<[call |-> c, seen |-> b, outcome |-> out, after |-> nb]>>
                \o Replay(nb, Tail(order))

\* The records a sequential run leaves, in order.
ReplayRecords(w, run) ==
    LET done == SelectSeq(run, LAMBDA e : e.outcome = "ok")
    IN [i \in 1..Len(done) |->
            [id |-> done[i].call, wallet |-> w,
             operation_type |-> operation_type[done[i].call],
             amount |-> amount[done[i].call]]]

\* C8: serial equivalence: for every wallet, the finished calls have the
\* outcomes and observed balances, and the wallet has the balance and the
\* records, of running those calls one at a time in lock-acquisition order.
SerialEquivalence ==
    \A w \in ExistingIds :
        LET run == Replay(initial[w], SettledOrder(w)) IN
        /\ \A i \in 1..Len(run) :
              /\ pc[run[i].call] = run[i].outcome
              /\ Observed(run[i].call) = run[i].seen
        /\ wallets[w] = IF run = <<>> THEN initial[w]
                        ELSE run[Len(run)].after
        /\ {c \in CallsOn(w) : pc[c] \in Finished}
              = {run[i].call : i \in 1..Len(run)}
        /\ RecordsOfWallet(w) = ReplayRecords(w, run)

\* The later call took the lock first and withdrew; the earlier call then
\* saw the reduced balance and withdrew the rest.
SerialEquivalenceWitness ==
    \E w \in ExistingIds :
        /\ lockOrder[w] = <<2, 1>>
        /\ operation_type[2] = OPERATION_TYPE_WITHDRAW /\ pc[2] = "ok"
        /\ operation_type[1] = OPERATION_TYPE_WITHDRAW
        /\ pc[1] = "ok"
        /\ Observed(1) = initial[w] - amount[2]
        /\ wallets[w] = 0

WithdrawRule ==
    /\ [](\A c \in Calls :
            (operation_type[c] = OPERATION_TYPE_WITHDRAW
                /\ pc[c] \in Finished /\ wallet_uuid[c] \in ExistingIds)
            => /\ pc[c] \in {"ok", InsufficientBalanceError}
               /\ pc[c] = "ok" <=> Observed(c) >= amount[c])
    /\ [][\A c \in Calls :
            operation_type[c] = OPERATION_TYPE_WITHDRAW =>
            /\ (pc[c] = "begun" /\ pc'[c] = "locked")
                  => wallet_balance'[c] = wallets[wallet_uuid[c]]
            /\ (pc[c] = "locked" /\ pc'[c] # "locked")
                  => /\ pc'[c] = IF wallet_balance[c] < amount[c]
                                 THEN InsufficientBalanceError ELSE "computed"
                     /\ Observed(c)' = wallet_balance[c]
            /\ (pc[c] # "ok" /\ pc'[c] = "ok")
                  => /\ wallets[wallet_uuid[c]] = Observed(c)
                     /\ wallets'[wallet_uuid[c]] = Observed(c) - amount[c]]_vars

\* A withdrawal of exactly the balance succeeded and left 0.
WithdrawRuleWitness ==
    \E c \in Calls :
        /\ operation_type[c] = OPERATION_TYPE_WITHDRAW /\ pc[c] = "ok"
        /\ old_balance[c] = amount[c]
        /\ wallet_balance[c] = 0
        /\ wallets[wallet_uuid[c]] = 0

MissingWalletRule ==
    /\ [](/\ DOMAIN wallets = ExistingIds
          /\ \A c \in Calls :
                (wallet_uuid[c] \in WalletIds \ ExistingIds
                    /\ pc[c] \in Finished)
                => /\ pc[c] = WalletNotFoundError
                   /\ RecordsOfCall(c) = <<>>
                   /\ RecordsOfWallet(wallet_uuid[c]) = <<>>)
    /\ [][\A c \in Calls :
            (pc[c] # WalletNotFoundError /\ pc'[c] = WalletNotFoundError)
            => (wallets' = wallets /\ ops' = ops)]_vars

\* A call on the missing id failed after another call had committed.
MissingWalletWitness ==
    \E c, d \in Calls :
        /\ wallet_uuid[c] = "w0" /\ pc[c] = WalletNotFoundError
        /\ operation_type[c] = OPERATION_TYPE_DEPOSIT
        /\ pc[d] = "ok" /\ Len(ops) = 1

\* ------------------------------------------------------------------ C13
\* C13: a call whose operation_type is outside {DEPOSIT, WITHDRAW} fails
\* with UnknownOperationTypeError before any row lock is requested: it
\* never holds or has acquired a wallet's lock, it is never made to wait
\* for one, and it ends with UnknownOperationTypeError whether or not the
\* wallet id exists.
UnknownTypeFailsBeforeLock ==
    \A c \in Calls :
        (pc[c] # "idle" /\ operation_type[c] \notin KnownTypes)
        => /\ \A w \in ExistingIds :
                 /\ c \notin rowLock[w]
                 /\ \A i \in 1..Len(lockOrder[w]) : lockOrder[w][i] # c
           /\ ~(pc[c] = "begun" /\ wallet_uuid[c] \in ExistingIds
                   /\ ~LockFree(wallet_uuid[c]))
           /\ pc[c] \in Finished => pc[c] = UnknownOperationTypeError

\* ------------------------------------------------------------------ C14
\* C14: idempotent failure: while every call made on a wallet is a
\* WITHDRAW of more than its balance, each of them that has finished failed
\* with InsufficientBalanceError and the balance and the records of the
\* wallet are what they were before the first call; and any step that
\* decides a WITHDRAW of more than the committed balance raises
\* InsufficientBalanceError and changes neither table.
IdempotentFailure ==
    /\ [](\A w \in ExistingIds :
            (\A c \in CallsOn(w) :
                operation_type[c] = OPERATION_TYPE_WITHDRAW
                    /\ amount[c] > initial[w])
            => /\ \A c \in CallsOn(w) :
                     pc[c] \in Finished => pc[c] = InsufficientBalanceError
               /\ wallets[w] = initial[w]
               /\ RecordsOfWallet(w) = <<>>)
    /\ [][\A c \in Calls :
            (/\ operation_type[c] = OPERATION_TYPE_WITHDRAW
             /\ pc[c] = "locked" /\ pc'[c] # "locked"
             /\ amount[c] > wallets[wallet_uuid[c]])
            => (pc'[c] = InsufficientBalanceError
                   /\ wallets' = wallets /\ ops' = ops)]_vars

\* The same excessive withdrawal was made twice on a wallet and failed
\* twice; the wallet is as it was created.
IdempotentFailureWitness ==
    \E w \in ExistingIds :
        /\ Len(lockOrder[w]) = 2
        /\ \A c \in {1, 2} :
              /\ wallet_uuid[c] = w
              /\ operation_type[c] = OPERATION_TYPE_WITHDRAW
              /\ pc[c] = InsufficientBalanceError
        /\ amount[1] = amount[2]
        /\ initial[w] > 0
        /\ wallets[w] = initial[w] /\ ops = <<>>

\* ------------------------------------------------------------------ C15
\* execute_wallet_operation called directly (not through the serializer)
\* with an amount that is zero or negative; the function takes any amount.
NonPositiveAmounts == {0 - 1, 0}

BeginRaw(c) ==
    /\ pc[c] = "idle"
    /\ IF c = 1 THEN TRUE ELSE pc[c - 1] # "idle"
    /\ \E w \in ExistingIds, k \in KnownTypes, a \in NonPositiveAmounts :
          /\ wallet_uuid' = [wallet_uuid EXCEPT ![c] = w]
          /\ operation_type' = [operation_type EXCEPT ![c] = k]
          /\ amount' = [amount EXCEPT ![c] = a]
    /\ pc' = [pc EXCEPT ![c] = "begun"]
    /\ UNCHANGED <<tables, rowLock, locals, txUpdates, txInserts, ghost, api>>

NextRaw == \E c \in Calls : Step(c) \/ BeginRaw(c)

SpecRaw == Init /\ [][NextRaw]_vars

\* C15: a call with amount <= 0.00, of either kind, never succeeds: it
\* changes no balance and persists no record, so every persisted record
\* has amount > 0.00.
NonPositiveAmountRejected ==
    /\ \A i \in 1..Len(ops) : ops[i].amount > 0
    /\ \A c \in Calls :
          (pc[c] # "idle" /\ amount[c] <= 0)
          => pc[c] # "ok"

\* ----------------------------------------------------- the two endpoints
\* wallets/views.py on top of execute_wallet_operation, for the requests that
\* passed IsAuthenticated and the throttle and enter the view function.  A
\* request body is a JSON object whose keys may be absent: a field is <<>>
\* when absent and
\* <<value>> when present.  The amount of a body is counted in thousandths,
\* one digit more than the serializer accepts.
DECIMAL_PLACES == 2
OPERATION_MIN_AMOUNT == 1
PayloadScale == 10

\* Number of fractional digits a body amount needs.
FractionalDigits(a) == IF a % PayloadScale = 0 THEN DECIMAL_PLACES
                       ELSE DECIMAL_PLACES + 1

\* Variant: the choices also admit any other name.
InvalidOperationTypeNever(p) == p.operation_type = <<>>

\* serializers.ChoiceField(choices=[DEPOSIT, WITHDRAW]), required.
InvalidOperationType(p) ==
    \/ p.operation_type = <<>>
    \/ p.operation_type[1] \notin KnownTypes

\* Variant: min_value is left out of the field.
InvalidAmountNoMinimum(p) ==
    \/ p.amount = <<>>
    \/ FractionalDigits(p.amount[1]) > DECIMAL_PLACES

\* serializers.DecimalField(max_digits=DECIMAL_MAX_DIGITS,
\* decimal_places=DECIMAL_PLACES, min_value=OPERATION_MIN_AMOUNT), required.
InvalidAmount(p) ==
    \/ p.amount = <<>>
    \/ FractionalDigits(p.amount[1]) > DECIMAL_PLACES
    \/ p.amount[1] < OPERATION_MIN_AMOUNT * PayloadScale

\* serializer.errors: the fields that failed.
SerializerErrors(p) ==
    (IF InvalidOperationType(p) THEN {"operation_type"} ELSE {})
        \cup (IF InvalidAmount(p) THEN {"amount"} ELSE {})

\* serializer.validated_data['amount'], in hundredths.
ValidatedAmount(p) == p.amount[1] \div PayloadScale

\* Bodies the serializer accepts.
ValidPayloads ==
    {[operation_type |-> <<k>>, amount |-> <<a * PayloadScale>>] :
        k \in KnownTypes, a \in Amounts}

\* Bodies it rejects: a wrong or absent kind; an absent, zero, negative or
\* over-precise amount.
InvalidPayloads ==
    {[operation_type |-> t, amount |-> <<PayloadScale>>] :
        t \in {<<>>, <<"TRANSFER">>}}
    \cup {[operation_type |-> <<OPERATION_TYPE_DEPOSIT>>, amount |-> a] :
        a \in {<<>>, <<0>>, <<0 - PayloadScale>>, <<PayloadScale + 5>>}}

\* The POST requests made: every body by the owner on her wallet, and one
\* accepted and one rejected body for every other user and wallet id.
PostRequests ==
    ({<<"alice", "w1">>} \X (ValidPayloads \cup InvalidPayloads))
    \cup (((Users \X WalletIds) \ {<<"alice", "w1">>})
            \X {[operation_type |-> <<OPERATION_TYPE_DEPOSIT>>,
                 amount |-> <<PayloadScale>>],
                [operation_type |-> <<OPERATION_TYPE_DEPOSIT>>,
                 amount |-> <<0>>]})

\* Variant: the lookup filters by id only.
UserWalletFoundById(user, w) == w \in DOMAIN wallets

\* Variant: the view does not look the wallet up before the service call.
UserWalletFoundUnchecked(user, w) == TRUE

\* views.py:41-45 Wallet.objects.filter(id=wallet_uuid, user=user).first()
UserWalletFound(user, w) == w \in DOMAIN wallets /\ owner[w] = user

\* Http404('Wallet not found') as answered by the framework.
Http404 == [kind |-> "not_found"]

\* The slot of a request is free, and requests are numbered as they arrive.
Arrives(c) ==
    /\ method[c] = "none"
    /\ pc[c] = "idle"
    /\ IF c = 1 THEN TRUE ELSE method[c - 1] # "none"

\* views.py:68-82 wallet_detail: GET /wallets/<wallet_uuid>/
wallet_detail(c) ==
    /\ Arrives(c)
    /\ \E u \in Users, w \in WalletIds :
          /\ principal' = [principal EXCEPT ![c] = u]
          /\ url_wallet' = [url_wallet EXCEPT ![c] = w]
          /\ IF UserWalletFound(u, w)
             THEN /\ status' = [status EXCEPT ![c] = 200]
                  /\ data' = [data EXCEPT ![c] =
                                [kind |-> "wallet", id |-> w,
                                 balance |-> wallets[w]]]
             ELSE /\ status' = [status EXCEPT ![c] = 404]
                  /\ data' = [data EXCEPT ![c] = Http404]
    /\ method' = [method EXCEPT ![c] = "GET"]
    /\ UNCHANGED <<tables, rowLock, pc, args, locals, txUpdates, txInserts,
                   ghost, owner, payload>>

\* views.py:107-153 wallet_operation up to the call of the service: the
\* ownership lookup, the serializer, then execute_wallet_operation is entered
\* with wallet.id and the validated data.
wallet_operation(c) ==
    /\ Arrives(c)
    /\ \E r \in PostRequests :
        LET u == r[1][1]
            w == r[1][2]
            p == r[2]
        IN
          /\ principal' = [principal EXCEPT ![c] = u]
          /\ url_wallet' = [url_wallet EXCEPT ![c] = w]
          /\ payload' = [payload EXCEPT ![c] = p]
          /\ IF ~UserWalletFound(u, w)
             THEN /\ status' = [status EXCEPT ![c] = 404]
                  /\ data' = [data EXCEPT ![c] = Http404]
                  /\ UNCHANGED <<pc, args>>
             ELSE IF SerializerErrors(p) # {}
             THEN /\ status' = [status EXCEPT ![c] = 400]
                  /\ data' = [data EXCEPT ![c] =
                                [kind |-> "errors",
                                 fields |-> SerializerErrors(p)]]
                  /\ UNCHANGED <<pc, args>>
             ELSE /\ wallet_uuid' = [wallet_uuid EXCEPT ![c] = w]
                  /\ operation_type' = [operation_type EXCEPT ![c] =
                                           p.operation_type[1]]
                  /\ amount' = [amount EXCEPT ![c] = ValidatedAmount(p)]
                  /\ pc' = [pc EXCEPT ![c] = "begun"]
                  /\ UNCHANGED response
    /\ method' = [method EXCEPT ![c] = "POST"]
    /\ UNCHANGED <<tables, rowLock, locals, txUpdates, txInserts, ghost, owner>>

\* Variant: an insufficient balance is reported as a conflict, 409.
StatusOfConflict(outcome) ==
    IF outcome = "ok" THEN 200
    ELSE IF outcome = WalletNotFoundError THEN 404
    ELSE IF outcome = InsufficientBalanceError THEN 409
    ELSE IF outcome = UnknownOperationTypeError THEN 400
    ELSE 500

\* views.py:147-242: the status of each way the service call ends.
StatusOf(outcome) ==
    IF outcome = "ok" THEN 200
    ELSE IF outcome = WalletNotFoundError THEN 404
    ELSE IF outcome = InsufficientBalanceError THEN 400
    ELSE IF outcome = UnknownOperationTypeError THEN 400
    ELSE 500

\* Variant: the success body reports the balance before the operation.
DataOfStale(c) ==
    IF pc[c] = "ok"
        THEN [kind |-> "wallet", id |-> wallet_uuid[c],
              balance |-> old_balance[c]]
    ELSE [kind |-> "non_field_errors", error |-> "Internal server error"]

\* views.py:168, 187, 204, 221, 240: the body of each.
DataOf(c) ==
    IF pc[c] = "ok"
        THEN [kind |-> "wallet", id |-> wallet_uuid[c],
              balance |-> wallet_balance[c]]
    ELSE IF pc[c] = WalletNotFoundError
        THEN [kind |-> "non_field_errors", error |-> pc[c],
              wallet |-> wallet_uuid[c]]
    ELSE IF pc[c] = InsufficientBalanceError
        THEN [kind |-> "non_field_errors", error |-> pc[c],
              balance |-> wallet_balance[c], required |-> amount[c]]
    ELSE IF pc[c] = UnknownOperationTypeError
        THEN [kind |-> "non_field_errors", error |-> pc[c],
              operation_type |-> operation_type[c]]
    ELSE [kind |-> "non_field_errors", error |-> "Internal server error"]

\* views.py:155-242 wallet_operation after the service call returned or
\* raised: the response.
wallet_operation_response(c) ==
    /\ status[c] = 0
    /\ pc[c] \in Finished
    /\ status' = [status EXCEPT ![c] = StatusOf(pc[c])]
    /\ data' = [data EXCEPT ![c] = DataOf(c)]
    /\ UNCHANGED <<tables, rowLock, pc, args, locals, txUpdates, txInserts,
                   ghost, owner, request>>

\* The steps of execute_wallet_operation entered from the endpoint: the
\* wallet was found and the kind was accepted, and nothing here deletes a
\* wallet, so services.py:41-51 and 95-99 are not taken.
Execute(c) ==
    \/ LockWallet(c)
    \/ ApplyDeposit(c)
    \/ ApplyWithdraw(c)
    \/ RejectWithdraw(c)
    \/ SaveWallet(c)
    \/ CreateOperation(c)
    \/ Commit(c)
    \/ StoreError(c)

NextApi ==
    \E c \in Calls :
        \/ wallet_detail(c)
        \/ wallet_operation(c)
        \/ wallet_operation_response(c)
        \/ Execute(c)

SpecApi == Init /\ [][NextApi]_vars

\* views.py:147-153 alone: the service is called from the try block on any
\* arguments for one wallet and for the id of no wallet.
BeginTry(c) ==
    /\ Begin(c)
    /\ wallet_uuid'[c] \in {"w0", "w1"}

\* views.py:147-242 alone: the try block around the service call and its
\* except clauses, so that every except clause is entered.
NextTry ==
    \E c \in Calls :
        \/ BeginTry(c)
        \/ LockWallet(c)
        \/ LockMissing(c)
        \/ ApplyDeposit(c)
        \/ ApplyWithdraw(c)
        \/ RejectWithdraw(c)
        \/ RejectUnknown(c)
        \/ SaveWallet(c)
        \/ CreateOperation(c)
        \/ Commit(c)
        \/ StoreError(c)
        \/ wallet_operation_response(c)

SpecTry == Init /\ [][NextTry]_vars

\* ------------------------------------------- helpers of the endpoint claims
\* Wallet w exists and its owner is user u.
OwnedBy(u, w) == w \in DOMAIN wallets /\ owner[w] = u

\* The amount of body p is missing, below 0.01 or has a third fractional digit.
BadAmount(p) ==
    \/ p.amount = <<>>
    \/ p.amount[1] < PayloadScale
    \/ p.amount[1] % PayloadScale # 0

\* The kind of body p is missing or is neither DEPOSIT nor WITHDRAW.
BadKind(p) ==
    \/ p.operation_type = <<>>
    \/ p.operation_type[1] \notin {"DEPOSIT", "WITHDRAW"}

\* Request c arrives in this step.
Arriving(c) == method[c] = "none" /\ method'[c] # "none"

\* Nothing committed, pending or locked changes in this step.
StoreUntouched == UNCHANGED <<tables, txUpdates, txInserts, rowLock>>

NonDisclosure ==
    \A c, d \in Calls :
        (/\ method[c] # "none" /\ method[d] = method[c]
         /\ url_wallet[c] \notin DOMAIN wallets
         /\ url_wallet[d] \in DOMAIN wallets
         /\ owner[url_wallet[d]] \in Users \ {principal[d]})
        => /\ status[c] = status[d]
           /\ data[c] = data[d]
           /\ pc[c] = "idle" /\ pc[d] = "idle"

\* bob posted an accepted body to the id of no wallet and a rejected body to
\* alice's wallet and got the same response.
NonDisclosureWitness ==
    \E c, d \in Calls :
        /\ method[c] = "POST" /\ principal[c] = "bob" /\ url_wallet[c] = "w0"
        /\ ~BadAmount(payload[c])
        /\ method[d] = "POST" /\ principal[d] = "bob" /\ url_wallet[d] = "w1"
        /\ BadAmount(payload[d])
        /\ status[c] # 0 /\ status[c] = status[d] /\ data[c] = data[d]

\* ------------------------------------------------------------------ C19
\* C19: a request of an authenticated user for an existing wallet that has
\* no owner is served: a GET gets 200 with the wallet's balance, a POST
\* with an accepted body is not turned away with 404 and, once the service
\* returned, gets 200 with the updated balance.
OwnerlessWalletServed ==
    \A c \in Calls :
        (/\ method[c] # "none"
         /\ principal[c] \in Users
         /\ url_wallet[c] \in DOMAIN wallets
         /\ owner[url_wallet[c]] = NoUser)
        => /\ method[c] = "GET"
                => (status[c] = 200 /\ data[c].kind = "wallet")
           /\ (/\ method[c] = "POST"
               /\ ~BadAmount(payload[c]) /\ ~BadKind(payload[c]))
                => /\ status[c] # 404
                   /\ pc[c] = "ok" => status[c] \in {0, 200}

\* ------------------------------------------------------------------ C20
\* C20: once the endpoint has answered a service call, WalletNotFoundError
\* was answered 404, InsufficientBalanceError 400, UnknownOperationTypeError
\* 400, any other exception 500 and only a normal return 200; a call that
\* raised has no record and no pending write, the step in which it raised
\* and the step that answers change no balance and no record.
ErrorStatusMapping ==
    /\ [](\A c \in Calls :
            /\ (status[c] # 0 /\ pc[c] # "idle")
                => /\ pc[c] = WalletNotFoundError => status[c] = 404
                   /\ pc[c] = InsufficientBalanceError => status[c] = 400
                   /\ pc[c] = UnknownOperationTypeError => status[c] = 400
                   /\ pc[c] = StoreFailure => status[c] = 500
                   /\ (status[c] = 200) = (pc[c] = "ok")
            /\ pc[c] \in Raised
                => /\ RecordsOfCall(c) = <<>>
                   /\ txUpdates[c] = <<>> /\ txInserts[c] = <<>>)
    /\ [][\A c \in Calls :
            (\/ pc[c] \notin Raised /\ pc'[c] \in Raised
             \/ status[c] = 0 /\ status'[c] # 0)
            => UNCHANGED tables]_vars

\* An unknown kind was answered 400 and a withdrawal that failed in the
\* store after computing its balance was answered 500; nothing was written.
ErrorStatusWitness ==
    \E c, d \in Calls :
        /\ pc[c] = UnknownOperationTypeError /\ status[c] = 400
        /\ pc[d] = StoreFailure /\ status[d] = 500
        /\ wallet_balance[d] # old_balance[d]
        /\ wallets = initial /\ ops = <<>>

\* ------------------------------------------------------------------ C21
\* C21: a POST for a wallet id that does not exist is answered 404 with the
\* non_field_errors body made from the service's WalletNotFoundError, whose
\* message names the wallet id.
MissingWalletAnsweredByService ==
    \A c \in Calls :
        (/\ method[c] = "POST"
         /\ url_wallet[c] \notin DOMAIN wallets
         /\ status[c] # 0)
        => /\ status[c] = 404
           /\ data[c].kind = "non_field_errors"
           /\ data[c].error = WalletNotFoundError
           /\ data[c].wallet = url_wallet[c]

\* ------------------------------------------------------------------ C22
\* C22: when the store fails inside the service call, at the locking fetch,
\* at the wallet save, at the insert of the record or at the commit, also
\* once the wallet save was issued, the failing step leaves every balance
\* and the history as they are and drops the pending writes and the lock;
\* the call has no record afterwards and is answered with 500 and nothing
\* else.
StoreFailureRollsBack ==
    /\ [](\A c \in Calls :
            pc[c] = StoreFailure
            => /\ RecordsOfCall(c) = <<>>
               /\ txUpdates[c] = <<>> /\ txInserts[c] = <<>>
               /\ \A w \in ExistingIds : c \notin rowLock[w]
               /\ status[c] \in {0, 500}
               /\ status[c] = 500 => data[c].error = "Internal server error")
    /\ [][\A c \in Calls :
            (pc[c] # StoreFailure /\ pc'[c] = StoreFailure)
            => /\ pc[c] \in {"begun", "computed", "saved", "created"}
               /\ UNCHANGED tables]_vars

\* A deposit failed in the store, the owner got 500, and her withdrawal on
\* the same wallet then succeeded on the balance the wallet was created
\* with.
StoreFailureWitness ==
    \E c, d \in Calls :
        /\ pc[c] = StoreFailure /\ status[c] = 500
        /\ operation_type[c] = OPERATION_TYPE_DEPOSIT
        /\ wallet_balance[c] # old_balance[c]
        /\ pc[d] = "ok" /\ wallet_uuid[d] = wallet_uuid[c]
        /\ operation_type[d] = OPERATION_TYPE_WITHDRAW
        /\ wallets[wallet_uuid[d]] = initial[wallet_uuid[d]] - amount[d]
        /\ Len(ops) = 1

\* ------------------------------------------------------- the admin site
\* wallets/admin.py: WalletAdmin registers Wallet with id, created_at and
\* updated_at read-only, so the change form of the admin site edits balance.
\* Saving the form validates the field (MinValueValidator(WALLET_MIN_BALANCE))
\* and issues an UPDATE of the row, which waits for the row lock; the owner
\* is submitted as it was.  The lower bound of the validator:
WALLET_MIN_BALANCE == 0

\* WalletAdmin: the change form is saved with balance b for wallet w.
WalletAdmin_change(w, b) ==
    /\ LockFree(w)
    /\ b >= WALLET_MIN_BALANCE
    /\ wallets' = [wallets EXCEPT ![w] = b]
    /\ UNCHANGED <<ops, rowLock, pc, args, locals, txUpdates, txInserts,
                   ghost, api>>

NextAdmin ==
    \/ \E c \in Calls : Step(c)
    \/ \E w \in ExistingIds, b \in 0..MaxInitBalance : WalletAdmin_change(w, b)

SpecAdmin == Init /\ [][NextAdmin]_vars

\* ------------------------------------------------------------------ C23
\* C23: a persisted wallet balance changes only in the step in which a
\* call of execute_wallet_operation commits, and there only the balance of
\* the wallet of that call; no other action writes a balance.
SoleMutationPath ==
    [][\A w \in ExistingIds :
          wallets'[w] # wallets[w]
          => \E c \in Calls :
                /\ wallet_uuid[c] = w
                /\ pc[c] = "created" /\ pc'[c] = "ok"]_vars

\* ------------------------------------------------------------------ C24
\* C24: the wallet a successful call returns, and the 200 body made from
\* it, carries the balance read under the lock plus the amount for DEPOSIT
\* or minus it for WITHDRAW, and that is the balance the call commits: at
\* the commit the balance read is still the persisted one, and the persisted
\* balance becomes the returned one.
ReturnedBalance ==
    /\ [](\A c \in Calls :
            pc[c] = "ok"
            => /\ wallet_balance[c] =
                    IF operation_type[c] = "DEPOSIT"
                    THEN old_balance[c] + amount[c]
                    ELSE old_balance[c] - amount[c]
               /\ status[c] = 200
                    => /\ data[c].id = wallet_uuid[c]
                       /\ data[c].balance = wallet_balance[c])
    /\ [][\A c \in Calls :
            (pc[c] = "created" /\ pc'[c] = "ok")
            => /\ old_balance[c] = wallets[wallet_uuid[c]]
               /\ wallets'[wallet_uuid[c]] = wallet_balance[c]]_vars

\* A deposit and a withdrawal on the same wallet were both answered 200:
\* the deposit with the created balance plus its amount, the withdrawal with
\* that balance minus its amount, which is the persisted balance.
ReturnedBalanceWitness ==
    \E c, d \in Calls :
        /\ status[c] = 200 /\ pc[c] = "ok" /\ operation_type[c] = "DEPOSIT"
        /\ status[d] = 200 /\ pc[d] = "ok" /\ operation_type[d] = "WITHDRAW"
        /\ wallet_uuid[c] = wallet_uuid[d]
        /\ data[c].balance = initial[wallet_uuid[c]] + amount[c]
        /\ data[d].balance = data[c].balance - amount[d]
        /\ wallets[wallet_uuid[d]] = data[d].balance

\* ------------------------------------------------------- authentication
\* views.py:69 and views.py:108 @permission_classes([IsAuthenticated]): the
\* framework checks the permission before it calls the view function.  A
\* request without credentials has the anonymous user, NoUser here.

\* Variant: AllowAny in place of IsAuthenticated.
IsAuthenticatedAllowAny(u) == TRUE

\* rest_framework.permissions.IsAuthenticated.has_permission
IsAuthenticated(u) == u \in Users

\* The status of a request that was not authenticated, with the JWT
\* authentication the project configures.
HTTP_401_UNAUTHORIZED == 401

\* A request without credentials arrives at either endpoint.  Were it let
\* through, the view would look the wallet up for a user that owns none.
unauthenticated_request(c) ==
    /\ Arrives(c)
    /\ \E w \in WalletIds :
          /\ url_wallet' = [url_wallet EXCEPT ![c] = w]
          /\ \/ /\ method' = [method EXCEPT ![c] = "GET"]
                /\ UNCHANGED payload
             \/ /\ method' = [method EXCEPT ![c] = "POST"]
                /\ payload' = [payload EXCEPT ![c] =
                                 [operation_type |-> <<OPERATION_TYPE_DEPOSIT>>,
                                  amount |-> <<PayloadScale>>]]
    /\ IF IsAuthenticated(NoUser)
       THEN /\ status' = [status EXCEPT ![c] = 404]
            /\ data' = [data EXCEPT ![c] = Http404]
       ELSE /\ status' = [status EXCEPT ![c] = HTTP_401_UNAUTHORIZED]
            /\ data' = [data EXCEPT ![c] = [kind |-> "not_authenticated"]]
    /\ UNCHANGED <<tables, rowLock, pc, args, locals, txUpdates, txInserts,
                   ghost, owner, principal>>

\* Requests without credentials beside the authenticated POSTs.
NextAuth ==
    \E c \in Calls :
        \/ unauthenticated_request(c)
        \/ wallet_operation(c)
        \/ wallet_operation_response(c)
        \/ Execute(c)

SpecAuth == Init /\ [][NextAuth]_vars

InsufficientBalanceReport ==
    /\ [](\A c \in Calls :
            pc[c] = InsufficientBalanceError
            => /\ wallet_balance[c] < amount[c]
               /\ status[c] # 0
                    => /\ status[c] = 400
                       /\ data[c].balance = wallet_balance[c]
                       /\ data[c].required = amount[c])
    /\ [][\A c \in Calls :
            (pc[c] # InsufficientBalanceError
                /\ pc'[c] = InsufficientBalanceError)
            => LET w == wallet_uuid[c]
                   done == Succeeded(CallsOn(w))
               IN /\ wallet_balance'[c] = wallets[w]
                  /\ wallets[w] = initial[w] + SumOfCalls(done, "DEPOSIT")
                                     - SumOfCalls(done, "WITHDRAW")]_vars

\* A deposit was committed, and a larger withdrawal on the same wallet was
\* then answered 400 with the balance after the deposit and its own amount.
InsufficientBalanceReportWitness ==
    \E c, d \in Calls :
        /\ pc[d] = "ok" /\ operation_type[d] = "DEPOSIT"
        /\ wallet_uuid[c] = wallet_uuid[d]
        /\ pc[c] = InsufficientBalanceError /\ status[c] = 400
        /\ data[c].balance = initial[wallet_uuid[c]] + amount[d]
        /\ data[c].required = amount[c]

\* ------------------------------------------------------------------ C27
\* C27: every step of a call on wallet A, whether the call ends in success
\* or in failure, leaves the balance, the records and the row lock of every
\* other wallet as they are, and every record in the history names the
\* wallet of the call that inserted it.
FrameAcrossWallets ==
    /\ [](\A i \in 1..Len(ops) : ops[i].wallet = wallet_uuid[ops[i].id])
    /\ [][\A c \in Calls :
            pc'[c] # pc[c]
            => \A w \in ExistingIds \ {wallet_uuid'[c]} :
                  /\ wallets'[w] = wallets[w]
                  /\ SelectSeq(ops', LAMBDA r : r.wallet = w)
                        = SelectSeq(ops, LAMBDA r : r.wallet = w)
                  /\ rowLock'[w] = rowLock[w]]_vars

\* A deposit on the second wallet succeeded and a withdrawal on the first
\* was rejected: the first wallet has its created balance and no record,
\* the second has the one record.
FrameAcrossWalletsWitness ==
    \E c, d \in Calls :
        /\ pc[c] = "ok" /\ wallet_uuid[c] = "w2"
        /\ pc[d] = InsufficientBalanceError /\ wallet_uuid[d] = "w1"
        /\ wallets["w1"] = initial["w1"]
        /\ wallets["w2"] = initial["w2"] + amount[c]
        /\ RecordsOfWallet("w1") = <<>>
        /\ Len(RecordsOfWallet("w2")) = 1

\* ------------------------------------------------------------------ C28
\* C28: a lock held on another wallet never blocks a call: a call that
\* asks for the row lock of an existing wallet A gets it whenever nobody
\* holds A's lock, whoever holds the locks of the other wallets, and once
\* it holds A's lock each of its steps up to the commit can be taken.
NotBlockedByOtherWallet ==
    \A c \in Calls :
        /\ (/\ pc[c] = "begun"
            /\ wallet_uuid[c] \in ExistingIds
            /\ rowLock[wallet_uuid[c]] = {})
            => ENABLED LockWallet(c)
        /\ pc[c] \in InTransaction => ENABLED Step(c)

\* A call holds the row lock of the second wallet with its update pending,
\* and a later call on the first wallet has committed.
NotBlockedWitness ==
    \E c, d \in Calls :
        /\ d < c
        /\ wallet_uuid[d] = "w2" /\ pc[d] = "saved" /\ d \in rowLock["w2"]
        /\ wallet_uuid[c] = "w1" /\ pc[c] = "ok"

\* ------------------------------------------------------------------ C29
\* C29: a call that asks for the row lock of a wallet while another
\* transaction holds it takes no step: it does not fail and reads and
\* writes nothing.  It leaves the wait only by acquiring the lock, when
\* nobody holds it, and then reads the persisted balance, which is the one
\* the last holder committed, or the one that holder had read if it rolled
\* back.
WaitsForHolder ==
    /\ [](\A c \in Calls :
            (/\ pc[c] = "begun"
             /\ wallet_uuid[c] \in ExistingIds
             /\ rowLock[wallet_uuid[c]] # {})
            => ~ENABLED Step(c))
    /\ [][\A c \in Calls :
            (/\ pc[c] = "begun" /\ pc'[c] # "begun"
             /\ wallet_uuid[c] \in ExistingIds)
            => LET w == wallet_uuid[c]
                   n == Len(lockOrder[w])
               IN /\ rowLock[w] = {}
                  /\ pc'[c] = "locked"
                  /\ wallet_balance'[c] = wallets[w]
                  /\ n > 0 =>
                        LET h == lockOrder[w][n]
                        IN wallets[w] = IF pc[h] = "ok"
                                        THEN wallet_balance[h]
                                        ELSE Observed(h)]_vars

\* The second call on a wallet holds the lock after the first one
\* committed a changed balance, and has read that balance.
WaitsForHolderWitness ==
    \E c, d \in Calls :
        /\ wallet_uuid[c] = "w1" /\ lockOrder["w1"] = <<d, c>>
        /\ pc[d] = "ok" /\ pc[c] = "locked"
        /\ wallet_balance[c] = wallet_balance[d]
        /\ wallet_balance[c] # initial["w1"]

\* ------------------------------------------------------------------ C30
\* C30: a call that is cancelled or timed out while it waits for a row
\* lock another transaction holds ends with the failure and nothing else:
\* the step changes no balance, no record, no pending write and no lock.
\* A call that failed so stays failed: it is not started again, it never
\* acquires a lock afterwards, and it has no record.
CancelledWhileWaiting ==
    /\ [](\A c \in Calls :
            pc[c] = StoreFailure
            => /\ RecordsOfCall(c) = <<>>
               /\ \A w \in ExistingIds : c \notin rowLock[w])
    /\ [][\A c \in Calls :
            /\ (/\ pc[c] = "begun" /\ pc'[c] # "begun"
                /\ wallet_uuid[c] \in ExistingIds
                /\ rowLock[wallet_uuid[c]] # {})
                => /\ pc'[c] = StoreFailure
                   /\ UNCHANGED <<tables, rowLock, txUpdates, txInserts,
                                  locals, lockOrder>>
            /\ pc[c] = StoreFailure
                => /\ pc'[c] = StoreFailure
                   /\ wallet_balance'[c] = wallet_balance[c]
                   /\ \A w \in ExistingIds :
                         Len(SelectSeq(lockOrder'[w], LAMBDA x : x = c))
                            = Len(SelectSeq(lockOrder[w], LAMBDA x : x = c))]_vars

\* A call on the first wallet failed without ever having held its lock,
\* while the call made before it holds that lock with its update pending;
\* nothing has been written.
CancelledWhileWaitingWitness ==
    \E c, d \in Calls :
        /\ d < c
        /\ wallet_uuid[c] = "w1" /\ pc[c] = StoreFailure
        /\ lockOrder["w1"] = <<d>>
        /\ pc[d] = "saved" /\ rowLock["w1"] = {d}
        /\ wallets = initial /\ ops = <<>>

\* ------------------------------------------------------ wallet deletion
\* Wallet is registered with the admin site (admin.py:6-12), whose delete
\* view calls Wallet.delete().  WalletOperation.wallet is a ForeignKey with
\* on_delete=CASCADE (models.py:143-149): the records of the wallet go with
\* it, in one transaction.  The DELETE of the row waits for the row lock.

\* Variant: the foreign key does not cascade, the records stay.
Wallet_delete_keeps_records(w) ==
    /\ w \in DOMAIN wallets
    /\ LockFree(w)
    /\ wallets' = [x \in DOMAIN wallets \ {w} |-> wallets[x]]
    /\ UNCHANGED <<ops, rowLock, pc, args, locals, txUpdates, txInserts,
                   ghost, api>>

\* Wallet.delete() of wallet w.
Wallet_delete(w) ==
    /\ w \in DOMAIN wallets
    /\ LockFree(w)
    /\ wallets' = [x \in DOMAIN wallets \ {w} |-> wallets[x]]
    /\ ops' = SelectSeq(ops, LAMBDA r : r.wallet # w)
    /\ UNCHANGED <<rowLock, pc, args, locals, txUpdates, txInserts, ghost, api>>

\* The service beside deletions.
NextServiceDelete ==
    \/ \E c \in Calls : Step(c)
    \/ \E w \in ExistingIds : Wallet_delete(w)

SpecServiceDelete == Init /\ [][NextServiceDelete]_vars

\* The operation endpoint beside deletions: between the lookup of the view
\* and the locking fetch of the service the wallet may be deleted, so
\* services.py:41-51 is taken.
NextDelete ==
    \/ \E c \in Calls :
          \/ wallet_operation(c)
          \/ wallet_operation_response(c)
          \/ LockWallet(c)
          \/ LockMissing(c)
          \/ ApplyDeposit(c)
          \/ ApplyWithdraw(c)
          \/ RejectWithdraw(c)
          \/ SaveWallet(c)
          \/ CreateOperation(c)
          \/ Commit(c)
    \/ \E w \in ExistingIds : Wallet_delete(w)

SpecDelete == Init /\ [][NextDelete]_vars

\* wallets/admin.py:15-27: WalletOperationAdmin registers WalletOperation
\* with id and created_at read-only, so the change form of the admin site
\* edits wallet, operation_type and amount of a record, and the delete view
\* removes a single record.  Saving the form validates amount
\* (MinValueValidator(OPERATION_MIN_AMOUNT)).

\* The change form of record i is saved with amount a.
WalletOperationAdmin_change(i, a) ==
    /\ i \in 1..Len(ops)
    /\ a >= OPERATION_MIN_AMOUNT
    /\ ops[i].amount # a
    /\ ops' = [ops EXCEPT ![i].amount = a]
    /\ UNCHANGED <<wallets, rowLock, pc, args, locals, txUpdates, txInserts,
                   ghost, api>>

\* Record i is deleted.
WalletOperationAdmin_delete(i) ==
    /\ i \in 1..Len(ops)
    /\ ops' = SubSeq(ops, 1, i - 1) \o SubSeq(ops, i + 1, Len(ops))
    /\ UNCHANGED <<wallets, rowLock, pc, args, locals, txUpdates, txInserts,
                   ghost, api>>

\* The service beside the admin pages of the records.
NextAdminRecords ==
    \/ \E c \in Calls : Step(c)
    \/ \E i \in 1..MaxCalls :
          \/ WalletOperationAdmin_delete(i)
          \/ \E a \in Amounts : WalletOperationAdmin_change(i, a)

SpecAdminRecords == Init /\ [][NextAdminRecords]_vars

\* ------------------------------------------------------------------ C31
\* C31: the history is append-only.  A step that deletes no wallet keeps
\* every committed record, with its wallet, kind and amount, at its place
\* and at most appends records; a step that deletes a wallet leaves the
\* records of every remaining wallet as they are.
AppendOnly ==
    [][IF DOMAIN wallets' = DOMAIN wallets
       THEN /\ Len(ops') >= Len(ops)
            /\ SubSeq(ops', 1, Len(ops)) = ops
       ELSE \A w \in DOMAIN wallets' :
               SelectSeq(ops', LAMBDA r : r.wallet = w)
                  = SelectSeq(ops, LAMBDA r : r.wallet = w)]_vars

\* ------------------------------------------------------------------ C32
\* C32: every record in the history names a wallet that exists, and the
\* step that deletes a wallet removes exactly the records of that wallet,
\* leaving the records of the other wallets in their order.
ReferentialIntegrity ==
    /\ [](\A i \in 1..Len(ops) : ops[i].wallet \in DOMAIN wallets)
    /\ [][\A w \in DOMAIN wallets \ DOMAIN wallets' :
            ops' = SelectSeq(ops, LAMBDA r : r.wallet # w)]_vars

\* Calls committed on both wallets, then the first wallet was deleted: its
\* record is gone and the record of the second wallet is the history.
ReferentialIntegrityWitness ==
    \E c, d \in Calls :
        /\ pc[d] = "ok" /\ wallet_uuid[d] = "w1"
        /\ pc[c] = "ok" /\ wallet_uuid[c] = "w2"
        /\ DOMAIN wallets = {"w2"}
        /\ ops = <<[id |-> c, wallet |-> "w2",
                    operation_type |-> operation_type[c],
                    amount |-> amount[c]]>>

\* ------------------------------------------------------ wallet creation
\* No endpoint creates wallets: they are created through the model,
\* Wallet.objects.create(user=..., balance=...), as the tests do.  The
\* tables start empty here.
InitCreate ==
    /\ wallets = [w \in {} |-> WALLET_DEFAULT_BALANCE]
    /\ initial = wallets
    /\ ops = <<>>
    /\ rowLock = [w \in ExistingIds |-> {}]
    /\ pc = [c \in Calls |-> "idle"]
    /\ wallet_uuid = [c \in Calls |-> "none"]
    /\ operation_type = [c \in Calls |-> "none"]
    /\ amount = [c \in Calls |-> 0]
    /\ wallet_balance = [c \in Calls |-> 0]
    /\ old_balance = [c \in Calls |-> 0]
    /\ txUpdates = [c \in Calls |-> <<>>]
    /\ txInserts = [c \in Calls |-> <<>>]
    /\ lockOrder = [w \in ExistingIds |-> <<>>]
    /\ owner = [w \in ExistingIds |-> IF w = "w1" THEN "alice" ELSE NoUser]
    /\ principal = [c \in Calls |-> NoUser]
    /\ method = [c \in Calls |-> "none"]
    /\ url_wallet = [c \in Calls |-> "none"]
    /\ payload = [c \in Calls |-> <<>>]
    /\ status = [c \in Calls |-> 0]
    /\ data = [c \in Calls |-> <<>>]

\* The balance keyword of a creation: absent, or any decimal, negative ones
\* included.
SuppliedBalances == {<<>>} \cup {<<b>> : b \in (0 - 1)..MaxInitBalance}

\* models.py:39-44 balance = DecimalField(default=WALLET_DEFAULT_BALANCE,
\* validators=[MinValueValidator(WALLET_MIN_BALANCE)]): the default fills in
\* an absent value; the validator and clean() (models.py:53-58) run only in
\* full_clean(), which Model.save() and objects.create() do not call.
Wallet_objects_create(w, b) ==
    /\ w \in ExistingIds \ DOMAIN wallets
    /\ wallets' = [x \in DOMAIN wallets \cup {w} |->
                      IF x # w THEN wallets[x]
                      ELSE IF b = <<>> THEN WALLET_DEFAULT_BALANCE ELSE b[1]]
    /\ initial' = [x \in DOMAIN wallets \cup {w} |->
                      IF x # w THEN initial[x] ELSE wallets'[w]]
    /\ UNCHANGED <<ops, rowLock, pc, args, locals, txUpdates, txInserts,
                   lockOrder, api>>

\* Creations beside calls of the service.
NextCreate ==
    \/ \E w \in ExistingIds, b \in SuppliedBalances : Wallet_objects_create(w, b)
    \/ \E c \in Calls : Step(c)

SpecCreate == InitCreate /\ [][NextCreate]_vars

\* ------------------------------------------------------------------ C33
\* C33: every wallet was created with a balance >= 0.00, and no wallet is
\* persisted with a negative balance.
CreatedNonNegative ==
    \A w \in DOMAIN wallets : initial[w] >= 0 /\ wallets[w] >= 0

\* ------------------------------------------------------------- capacity
\* models.py:39-44 balance = DecimalField(max_digits=DECIMAL_MAX_DIGITS,
\* decimal_places=DECIMAL_PLACES): a stored balance has at most
\* DECIMAL_MAX_DIGITS = 20 digits, 18 before the point.  The width is
\* FieldDigits digits here, so that the largest value fits the integers of
\* the checker; balances are counted in hundredths as everywhere.
FieldDigits == 1
MaxBalance == 10 ^ FieldDigits - 1

\* The first wallet was created close to the largest balance.
InitCapacity ==
    /\ \E b \in (MaxBalance - MaxAmount)..MaxBalance :
          wallets = [w \in ExistingIds |->
                        IF w = "w1" THEN b ELSE WALLET_DEFAULT_BALANCE]
    /\ initial = wallets
    /\ ops = <<>>
    /\ rowLock = [w \in ExistingIds |-> {}]
    /\ pc = [c \in Calls |-> "idle"]
    /\ wallet_uuid = [c \in Calls |-> "none"]
    /\ operation_type = [c \in Calls |-> "none"]
    /\ amount = [c \in Calls |-> 0]
    /\ wallet_balance = [c \in Calls |-> 0]
    /\ old_balance = [c \in Calls |-> 0]
    /\ txUpdates = [c \in Calls |-> <<>>]
    /\ txInserts = [c \in Calls |-> <<>>]
    /\ lockOrder = [w \in ExistingIds |-> <<>>]
    /\ owner = [w \in ExistingIds |-> IF w = "w1" THEN "alice" ELSE NoUser]
    /\ principal = [c \in Calls |-> NoUser]
    /\ method = [c \in Calls |-> "none"]
    /\ url_wallet = [c \in Calls |-> "none"]
    /\ payload = [c \in Calls |-> <<>>]
    /\ status = [c \in Calls |-> 0]
    /\ data = [c \in Calls |-> <<>>]

\* Variant: the column takes any number of digits.
SaveWalletUnbounded(c) == SaveWallet(c)

\* wallet.save() of a balance the column can hold.
SaveWalletWithin(c) ==
    /\ wallet_balance[c] <= MaxBalance
    /\ SaveWallet(c)

\* wallet.save() of a balance with more digits than the column has: the
\* UPDATE is refused with an error, which leaves the atomic block.
SaveWalletOverflow(c) ==
    /\ pc[c] = "computed"
    /\ wallet_balance[c] > MaxBalance
    /\ Rollback(c, StoreFailure)
    /\ UNCHANGED <<locals, ghost, api>>

NextCapacity ==
    \E c \in Calls :
        \/ Begin(c)
        \/ LockWallet(c)
        \/ LockMissing(c)
        \/ ApplyDeposit(c)
        \/ ApplyWithdraw(c)
        \/ RejectWithdraw(c)
        \/ RejectUnknown(c)
        \/ SaveWalletWithin(c)
        \/ SaveWalletOverflow(c)
        \/ CreateOperation(c)
        \/ Commit(c)

SpecCapacity == InitCapacity /\ [][NextCapacity]_vars

\* ------------------------------------------------------------------ C34
\* C34: every committed balance is at most the largest value of the field.
\* A DEPOSIT whose sum exceeds it never gets past the save: it fails there,
\* in a step that changes no balance and no record, and it has no record.
\* A DEPOSIT that commits makes the balance exactly the balance before the
\* commit plus the amount.
CapacityBound ==
    /\ [](/\ \A w \in DOMAIN wallets : wallets[w] <= MaxBalance
          /\ \A c \in Calls :
                (/\ operation_type[c] = "DEPOSIT"
                 /\ pc[c] \in {"computed", "saved", "created", "ok",
                               StoreFailure}
                 /\ old_balance[c] + amount[c] > MaxBalance)
                => /\ pc[c] \in {"computed", StoreFailure}
                   /\ RecordsOfCall(c) = <<>>
                   /\ txUpdates[c] = <<>>)
    /\ [][\A c \in Calls :
            /\ (pc[c] = "computed" /\ pc'[c] = StoreFailure)
                => UNCHANGED tables
            /\ (pc[c] = "created" /\ pc'[c] = "ok"
                    /\ operation_type[c] = "DEPOSIT")
                => wallets'[wallet_uuid[c]]
                      = wallets[wallet_uuid[c]] + amount[c]]_vars

\* A deposit that would pass the largest balance failed and a deposit that
\* reaches it exactly committed.
CapacityBoundWitness ==
    \E c, d \in Calls :
        /\ wallet_uuid[c] = "w1" /\ wallet_uuid[d] = "w1"
        /\ operation_type[c] = "DEPOSIT" /\ pc[c] = StoreFailure
        /\ old_balance[c] + amount[c] > MaxBalance
        /\ operation_type[d] = "DEPOSIT" /\ pc[d] = "ok"
        /\ wallets["w1"] = MaxBalance
        /\ wallets["w1"] = initial["w1"] + amount[d]

\* ------------------------------------------------------------------ C35
\* C35: the balance a successful GET answers with is, at the moment of the
\* read, the wallet's initial balance plus the committed DEPOSIT records of
\* the wallet minus its committed WITHDRAW records; it is never the balance
\* some transaction has written but not committed.
CommittedReads ==
    [][\A c \in Calls :
          (method[c] = "none" /\ method'[c] = "GET" /\ status'[c] = 200)
          => LET w == url_wallet'[c] IN
             /\ data'[c].balance
                  = initial[w] + SumAmounts(ops, w, "DEPOSIT")
                               - SumAmounts(ops, w, "WITHDRAW")
             /\ \A d \in Calls :
                  (wallet_uuid[d] = w /\ pc[d] \in {"saved", "created"}
                       /\ wallet_balance[d] # old_balance[d])
                  => data'[c].balance # wallet_balance[d]]_vars

\* A GET was answered with the committed balance of a wallet for which a
\* transaction holds a different balance, saved but not committed.
CommittedReadsWitness ==
    \E c, d \in Calls :
        /\ method[c] = "GET" /\ status[c] = 200
        /\ method[d] = "POST" /\ wallet_uuid[d] = data[c].id
        /\ pc[d] \in {"saved", "created"}
        /\ wallet_balance[d] # data[c].balance
        /\ data[c].balance = wallets[data[c].id]

\* ------------------------------------------------------------------ C36
\* C36: whoever holds the row lock of a wallet is an invocation on that
\* wallet that is between its locking fetch and its commit or rollback; an
\* invocation that has finished, in whichever way, holds no lock, and an
\* invocation waiting for a wallet on which no transaction is in flight can
\* take the lock at once.
LockOnlyInFlight ==
    [](/\ \A w \in ExistingIds : rowLock[w] \subseteq InWindow(w)
       /\ \A c \in Calls :
            pc[c] \in Finished => \A w \in ExistingIds : c \notin rowLock[w]
       /\ \A d \in Calls :
            (/\ pc[d] = "begun"
             /\ wallet_uuid[d] \in DOMAIN wallets
             /\ InWindow(wallet_uuid[d]) = {})
            => ENABLED LockWallet(d))

\* An invocation that held the lock of a wallet failed, and the next one
\* on the same wallet then acquired the lock.
LockOnlyInFlightWitness ==
    \E c, d \in Calls : \E w \in ExistingIds :
        /\ lockOrder[w] = <<c, d>>
        /\ pc[c] \in {InsufficientBalanceError, StoreFailure}
        /\ pc[d] = "locked"
        /\ rowLock[w] = {d}

\* ------------------------------------------------------------------ C37
\* Every invocation that can take a step eventually takes one: the threads
\* of the server are scheduled and the database grants a free lock.
Fairness == \A c \in Calls : WF_vars(Step(c))

\* The wallets as Init has them, the first one holding the smallest
\* amount: a withdrawal of it succeeds and a larger one is refused.
InitLive == Init /\ wallets["w1"] = OPERATION_MIN_AMOUNT

SpecLive == InitLive /\ [][Next]_vars /\ Fairness

\* C37: under weak fairness of each invocation every invocation that was
\* made eventually finishes, by commit or by an error; and in no reachable
\* state are all unfinished invocations stuck: while some invocation is
\* started and unfinished, some invocation can take a step.
EventuallyFinishes ==
    /\ \A c \in Calls : (pc[c] = "begun") ~> (pc[c] \in Finished)
    /\ []((\E c \in Calls : pc[c] \notin Finished \cup {"idle"})
            => \E d \in Calls : pc[d] \notin Finished \cup {"idle"}
                                 /\ ENABLED Step(d))
    /\ [](\A c \in Calls :
            Cardinality({w \in ExistingIds : c \in rowLock[w]}) <= 1)

\* All invocations were made on one wallet, one of them waited for the lock
\* that another one held, and all of them have finished.
EventuallyFinishesWitness ==
    /\ \A c \in Calls : pc[c] \in Finished /\ wallet_uuid[c] = "w1"
    /\ Len(lockOrder["w1"]) = MaxCalls

\* ------------------------------------------------------------ ownership
\* wallets/admin.py:6-12: user is not among the read-only fields of
\* WalletAdmin, so the change form of the admin site assigns the wallet to
\* another user.  The UPDATE waits for the row lock like any other write.
WalletAdmin_change_user(w, u) ==
    /\ w \in DOMAIN wallets
    /\ LockFree(w)
    /\ owner[w] # u
    /\ owner' = [owner EXCEPT ![w] = u]
    /\ UNCHANGED <<tables, rowLock, pc, args, locals, txUpdates, txInserts,
                   ghost, request, response>>

NextOwner ==
    \/ \E c \in Calls :
          \/ wallet_operation(c)
          \/ wallet_operation_response(c)
          \/ LockWallet(c)
          \/ ApplyDeposit(c)
          \/ ApplyWithdraw(c)
          \/ RejectWithdraw(c)
          \/ SaveWallet(c)
          \/ CreateOperation(c)
          \/ Commit(c)
    \/ \E w \in ExistingIds, u \in Users : WalletAdmin_change_user(w, u)

SpecOwner == Init /\ [][NextOwner]_vars

\* ------------------------------------------------------------------ C38
\* C38: in the step in which an operation made through the endpoint
\* commits, its wallet exists and belongs to the user who made the
\* request, whatever happened to the wallet's owner since the view looked
\* the wallet up.
OwnedAtCommit ==
    [][\A c \in Calls :
          (pc[c] = "created" /\ pc'[c] = "ok" /\ method[c] = "POST")
          => /\ wallet_uuid[c] \in DOMAIN wallets
             /\ owner[wallet_uuid[c]] = principal[c]]_vars

MethodAmounts == (0 - 1)..MaxAmount

\* A Wallet instance with some balance, and the method and amount it is
\* about to be called with.
Wallet_instance(c) ==
    /\ pc[c] = "idle"
    /\ IF c = 1 THEN TRUE ELSE pc[c - 1] # "idle"
    /\ \E b \in 0..MaxInitBalance, k \in KnownTypes, a \in MethodAmounts :
          /\ wallet_balance' = [wallet_balance EXCEPT ![c] = b]
          /\ operation_type' = [operation_type EXCEPT ![c] = k]
          /\ amount' = [amount EXCEPT ![c] = a]
    /\ pc' = [pc EXCEPT ![c] = "locked"]
    /\ UNCHANGED <<tables, rowLock, wallet_uuid, old_balance, txUpdates,
                   txInserts, ghost, api>>

\* models.py:60-82 Wallet.deposit(amount)
Wallet_deposit(c) ==
    /\ pc[c] = "locked"
    /\ operation_type[c] = OPERATION_TYPE_DEPOSIT
    /\ old_balance' = [old_balance EXCEPT ![c] = wallet_balance[c]]
    /\ wallet_balance' = [wallet_balance EXCEPT ![c] = @ + amount[c]]
    /\ pc' = [pc EXCEPT ![c] = "computed"]
    /\ UNCHANGED <<tables, rowLock, args, txUpdates, txInserts, ghost, api>>

\* models.py:84-124 Wallet.withdraw(amount)
Wallet_withdraw(c) ==
    /\ pc[c] = "locked"
    /\ operation_type[c] = OPERATION_TYPE_WITHDRAW
    /\ IF wallet_balance[c] < amount[c]
       THEN /\ pc' = [pc EXCEPT ![c] = InsufficientBalanceError]
            /\ UNCHANGED locals
       ELSE /\ old_balance' = [old_balance EXCEPT ![c] = wallet_balance[c]]
            /\ wallet_balance' = [wallet_balance EXCEPT ![c] = @ - amount[c]]
            /\ pc' = [pc EXCEPT ![c] = "computed"]
    /\ UNCHANGED <<tables, rowLock, args, txUpdates, txInserts, ghost, api>>

NextMethods ==
    \E c \in Calls :
        \/ Wallet_instance(c)
        \/ Wallet_deposit(c)
        \/ Wallet_withdraw(c)

SpecMethods == Init /\ [][NextMethods]_vars

\* ------------------------------------------------------------------ C40
\* C40: a call of Wallet.deposit or Wallet.withdraw ends with
\* InsufficientBalanceError exactly when the WITHDRAW branch of the service
\* would raise it for the same balance and amount, and then the balance of
\* the instance is what it was; otherwise the balance of the instance
\* becomes the balance the DEPOSIT or WITHDRAW branch of the service
\* computes.
MethodsAgreeWithService ==
    [][\A c \in Calls :
          (pc[c] = "locked" /\ pc'[c] # "locked")
          => /\ (pc'[c] = InsufficientBalanceError)
                  <=> (/\ operation_type[c] = OPERATION_TYPE_WITHDRAW
                       /\ InsufficientBalance(wallet_balance[c], amount[c]))
             /\ pc'[c] = InsufficientBalanceError
                  => wallet_balance'[c] = wallet_balance[c]
             /\ pc'[c] # InsufficientBalanceError
                  => /\ pc'[c] = "computed"
                     /\ wallet_balance'[c]
                          = NewBalance(operation_type[c], wallet_balance[c],
                                       amount[c])]_vars

\* One instance was emptied by withdrawing its whole balance, another
\* refused a withdrawal of more than it holds and kept its balance.
MethodsAgreeWitness ==
    \E c, d \in Calls :
        /\ operation_type[c] = OPERATION_TYPE_WITHDRAW /\ pc[c] = "computed"
        /\ old_balance[c] = amount[c] /\ amount[c] > 0
        /\ wallet_balance[c] = 0
        /\ operation_type[d] = OPERATION_TYPE_WITHDRAW
        /\ pc[d] = InsufficientBalanceError
        /\ wallet_balance[d] < amount[d] /\ wallet_balance[d] > 0

====
